---- MODULE Spec2Model ----
(***************************************************************************)
(* Model of the timetable generator of CourSys                             *)
(* (src/src/utils/timetableGenerator.tsx).                                 *)
(*                                                                         *)
(* Strings are sequences of one-character strings, so that getDays and     *)
(* timeToMinutes parse their argument the way the code does.  The          *)
(* recursion of backtrack is an explicit stack of frames; every frame      *)
(* holds courseIndex, the position of its for-loop and the place in the    *)
(* body where it stands.  currentTimetable is the one array all frames     *)
(* share (it is passed by reference).                                      *)
(***************************************************************************)
EXTENDS Integers, Sequences, FiniteSets, TLC

VARIABLES courses, maxTimetables, timetables, currentTimetable, stack, pc,
          result, schedule1, schedule2, conflict, other, returned, calls,
          subject, courseCode, charIndex, hash, hue

vars == <<courses, maxTimetables, timetables, currentTimetable, stack, pc,
          result, schedule1, schedule2, conflict, other, returned, calls,
          subject, courseCode, charIndex, hash, hue>>

searchVars == <<courses, maxTimetables, timetables, currentTimetable, stack, result>>
conflictVars == <<schedule1, schedule2, conflict>>
callVars == <<other, returned, calls>>
colorVars == <<subject, courseCode, charIndex, hash, hue>>

(***************************************************************************)
(* Bounds of the explored inputs.                                          *)
(***************************************************************************)
MaxCourses == 3
MaxSections == 2
MaxLimit == 3
MaxCalls == 2
MaxSubjectLen == 4
MaxCodeLen == 4

\* maxTimetables: number = 999
DefaultMaxTimetables == 999

(***************************************************************************)
(* Generic sequence helpers.                                               *)
(***************************************************************************)
Range(s) == {s[i] : i \in 1..Len(s)}

Min(a, b) == IF a <= b THEN a ELSE b

RECURSIVE Flatten(_)
Flatten(ss) == IF ss = <<>> THEN <<>> ELSE Head(ss) \o Flatten(Tail(ss))

\* The subsequences of s (order kept) with at most n elements.
RECURSIVE SubSeqsUpTo(_, _)
SubSeqsUpTo(s, n) ==
    IF s = <<>> \/ n = 0 THEN {<<>>}
    ELSE SubSeqsUpTo(Tail(s), n)
         \cup {<<Head(s)>> \o t : t \in SubSeqsUpTo(Tail(s), n - 1)}

(***************************************************************************)
(* Strings as character sequences.                                         *)
(***************************************************************************)
Digits == <<"0", "1", "2", "3", "4", "5", "6", "7", "8", "9">>

IsDigit(c) == \E d \in 1..10 : Digits[d] = c

DigitVal(c) == (CHOOSE d \in 1..10 : Digits[d] = c) - 1

\* String.prototype.slice(from, to) with 0 <= from <= to, 0-based, end exclusive.
Slice(s, from, to) == SubSeq(s, from + 1, Min(to, Len(s)))

\* String.prototype.slice(from)
SliceFrom(s, from) == SubSeq(s, from + 1, Len(s))

\* parseInt on a string that starts with a digit: the value of the leading
\* run of decimal digits.
RECURSIVE ParseIntAcc(_, _)
ParseIntAcc(s, acc) ==
    IF s = <<>> \/ ~IsDigit(Head(s)) THEN acc
    ELSE ParseIntAcc(Tail(s), acc * 10 + DigitVal(Head(s)))

parseInt(s) == ParseIntAcc(s, 0)

\* String.prototype.split('-'): the pieces between the dashes.
RECURSIVE SplitAcc(_, _)
SplitAcc(s, cur) ==
    IF s = <<>> THEN <<cur>>
    ELSE IF Head(s) = "-" THEN <<cur>> \o SplitAcc(Tail(s), <<>>)
    ELSE SplitAcc(Tail(s), Append(cur, Head(s)))

Split(s) == SplitAcc(s, <<>>)

(***************************************************************************)
(* timetableGenerator.tsx: the conflict test.                              *)
(***************************************************************************)
\* getDays: the 0-based positions of dayStr that are not '-', in order.
RECURSIVE getDaysFrom(_, _)
getDaysFrom(dayStr, i) ==
    IF i >= Len(dayStr) THEN <<>>
    ELSE (IF dayStr[i + 1] # "-" THEN <<i>> ELSE <<>>) \o getDaysFrom(dayStr, i + 1)

getDays(dayStr) == getDaysFrom(dayStr, 0)

\* timeToMinutes: "1830-2120" -> minutes from midnight.
timeToMinutes(time) ==
    LET parts == Split(time)
        start == parts[1]
        end   == parts[2]
    IN  [start |-> parseInt(Slice(start, 0, 2)) * 60 + parseInt(SliceFrom(start, 2)),
         end   |-> parseInt(Slice(end, 0, 2)) * 60 + parseInt(SliceFrom(end, 2))]

\* Mutant of hasConflict: the overlap test with < in place of <=, so that
\* back-to-back ranges count as overlapping.
hasConflictInclusive(s1, s2) ==
    LET days1 == getDays(s1.days)
        days2 == getDays(s2.days)
        time1 == timeToMinutes(s1.time)
        time2 == timeToMinutes(s2.time)
        commonDays == SelectSeq(days1, LAMBDA day : day \in Range(days2))
    IN  IF Len(commonDays) = 0 THEN FALSE
        ELSE ~(time1.end < time2.start \/ time2.end < time1.start)

hasConflict(s1, s2) ==
    LET days1 == getDays(s1.days)
        days2 == getDays(s2.days)
        time1 == timeToMinutes(s1.time)
        time2 == timeToMinutes(s2.time)
        commonDays == SelectSeq(days1, LAMBDA day : day \in Range(days2))
    IN  IF Len(commonDays) = 0 THEN FALSE
        ELSE ~(time1.end <= time2.start \/ time2.end <= time1.start)

\* The two inner loops of sectionConflicts: schedule1 over section.schedule,
\* schedule2 over selected.schedule, return true at the first conflict.
RECURSIVE innerLoop(_, _, _)
innerLoop(sched1, selSchedule, j) ==
    IF j > Len(selSchedule) THEN FALSE
    ELSE IF hasConflict(sched1, selSchedule[j]) THEN TRUE
    ELSE innerLoop(sched1, selSchedule, j + 1)

RECURSIVE middleLoop(_, _, _)
middleLoop(schedule, selSchedule, i) ==
    IF i > Len(schedule) THEN FALSE
    ELSE IF innerLoop(schedule[i], selSchedule, 1) THEN TRUE
    ELSE middleLoop(schedule, selSchedule, i + 1)

RECURSIVE outerLoop(_, _, _)
outerLoop(section, selectedSections, k) ==
    IF k > Len(selectedSections) THEN FALSE
    ELSE IF middleLoop(section.schedule, selectedSections[k].schedule, 1) THEN TRUE
    ELSE outerLoop(section, selectedSections, k + 1)

\* Mutant of sectionConflicts: only the most recently committed section is
\* compared.
sectionConflictsLastOnly(section, selectedSections) ==
    IF selectedSections = <<>> THEN FALSE
    ELSE outerLoop(section, selectedSections, Len(selectedSections))

\* Mutant of sectionConflicts: entries of type "Exam" are left out.
sectionConflictsNoExam(section, selectedSections) ==
    LET noExam(sec) == [sec EXCEPT !.schedule =
                            SelectSeq(sec.schedule, LAMBDA e : e.type # "Exam")]
        sel == [k \in 1..Len(selectedSections) |-> noExam(selectedSections[k])]
    IN  outerLoop(noExam(section), sel, 1)

sectionConflicts(section, selectedSections) ==
    outerLoop(section, selectedSections, 1)

(***************************************************************************)
(* Input data.  A Schedule keeps the fields of the Schedule interface that *)
(* the generator can read (type, days, time); a Section keeps its id and   *)
(* its schedule.                                                           *)
(***************************************************************************)
DaysMW == <<"M", "-", "W", "-", "-", "-", "-">>
DaysM  == <<"M", "-", "-", "-", "-", "-", "-">>
DaysW  == <<"-", "-", "W", "-", "-", "-", "-">>
DaysT  == <<"-", "T", "-", "-", "-", "-", "-">>
DaysTR == <<"-", "T", "-", "R", "-", "-", "-">>
DaysR  == <<"-", "-", "-", "R", "-", "-", "-">>
DaysF  == <<"-", "-", "-", "-", "F", "-", "-">>
DaysS  == <<"-", "-", "-", "-", "-", "S", "-">>
DaysNone == <<"-", "-", "-", "-", "-", "-", "-">>

T0900to1000 == <<"0", "9", "0", "0", "-", "1", "0", "0", "0">>
T1000to1100 == <<"1", "0", "0", "0", "-", "1", "1", "0", "0">>
T0930to1030 == <<"0", "9", "3", "0", "-", "1", "0", "3", "0">>
T0900to1001 == <<"0", "9", "0", "0", "-", "1", "0", "0", "1">>
T0900to1100 == <<"0", "9", "0", "0", "-", "1", "1", "0", "0">>
T1000to1200 == <<"1", "0", "0", "0", "-", "1", "2", "0", "0">>
T1030to1130 == <<"1", "0", "3", "0", "-", "1", "1", "3", "0">>
T1300to1400 == <<"1", "3", "0", "0", "-", "1", "4", "0", "0">>
T1330to1430 == <<"1", "3", "3", "0", "-", "1", "4", "3", "0">>
T0945to0945 == <<"0", "9", "4", "5", "-", "0", "9", "4", "5">>

Sched(type, days, time) == [type |-> type, days |-> days, time |-> time]

Sec(id, schedule) == [id |-> id, schedule |-> schedule]

\* The sections on offer, course by course.
Catalogue ==
    << << Sec("A1", <<Sched("Lecture", DaysMW, T0900to1000)>>),
          Sec("A2", <<Sched("Lecture", DaysMW, T1000to1100)>>),
          Sec("A3", <<Sched("Lecture", DaysTR, T0900to1000),
                      Sched("Exam", DaysF, T0900to1100)>>) >>,
       << Sec("B1", <<Sched("Lecture", DaysM, T0930to1030)>>),
          Sec("B2", <<Sched("Lecture", DaysTR, T1000to1100)>>),
          Sec("B3", <<Sched("Lecture", DaysF, T1000to1200)>>) >>,
       << Sec("C1", <<Sched("Lecture", DaysW, T0900to1001)>>),
          Sec("C2", <<Sched("Lecture", DaysT, T1030to1130),
                      Sched("Lab", DaysR, T1300to1400)>>),
          Sec("C3", <<Sched("Lecture", DaysS, T0900to1000),
                      Sched("Exam", DaysF, T1000to1200)>>) >>,
       << Sec("D1", <<Sched("Lecture", DaysMW, T0900to1000)>>),
          Sec("D2", <<Sched("Lab", DaysR, T1330to1430)>>) >> >>

\* A Course: its sections.  The course at position p of the input offers
\* at most MaxSections of the sections of the catalogue's course p, in
\* catalogue order.
CoursesAt(p) ==
    {[sections |-> ss] :
        ss \in SubSeqsUpTo(Catalogue[((p - 1) % Len(Catalogue)) + 1], MaxSections)}

RECURSIVE CourseListsOfLen(_)
CourseListsOfLen(n) ==
    IF n = 0 THEN {<<>>}
    ELSE {Append(cs, c) : cs \in CourseListsOfLen(n - 1), c \in CoursesAt(n)}

CourseLists == UNION {CourseListsOfLen(n) : n \in 0..MaxCourses}

Limits == (0..MaxLimit) \cup {DefaultMaxTimetables}

\* The schedule entries hasConflict is applied to on its own.
DayPatterns == {DaysMW, DaysM, DaysW, DaysT, DaysNone}

TimeStrings == {T0900to1000, T1000to1100, T0930to1030, T0900to1001, T0945to0945}

Schedules == {Sched("Lecture", d, t) : d \in DayPatterns, t \in TimeStrings}

NoSchedule == Sched("", <<>>, <<>>)

(***************************************************************************)
(* generateTimetables as a state machine.                                  *)
(***************************************************************************)
\* An activation of backtrack: its courseIndex, the position i of its for-loop
\* and the place where it stands.  entered is a history field: the contents of
\* currentTimetable when the call was made.
Frame(courseIndex, buffer) ==
    [courseIndex |-> courseIndex, i |-> 1, at |-> "entry", entered |-> buffer]

Top == stack[Len(stack)]

Pop(s) == SubSeq(s, 1, Len(s) - 1)

ReplaceTop(f) == [stack EXCEPT ![Len(stack)] = f]

\* generateColor is not running.
NoColor ==
    /\ subject = <<>>
    /\ courseCode = <<>>
    /\ charIndex = 0
    /\ hash = [hi |-> 0, lo |-> 0]
    /\ hue = 0

\* The locals of an invocation of generateTimetables that has not started.
NoInvocation ==
    [timetables |-> <<>>, currentTimetable |-> <<>>, stack |-> <<>>,
     pc |-> "ready", result |-> <<>>]

Init ==
    /\ courses \in CourseLists
    /\ maxTimetables \in Limits
    /\ timetables = <<>>
    /\ currentTimetable = <<>>
    /\ stack = <<>>
    /\ pc = "ready"
    /\ result = <<>>
    /\ schedule1 = NoSchedule
    /\ schedule2 = NoSchedule
    /\ conflict = FALSE
    /\ other = NoInvocation
    /\ returned = {}
    /\ calls = 0
    /\ NoColor

\* Mutant of generateTimetables: an empty course list is answered with an
\* empty result, without calling backtrack.
generateTimetablesEmptyGuard ==
    /\ pc = "ready"
    /\ timetables' = <<>>
    /\ currentTimetable' = <<>>
    /\ stack' = IF courses = <<>> THEN <<>> ELSE <<Frame(0, <<>>)>>
    /\ pc' = "running"
    /\ UNCHANGED <<courses, maxTimetables, result, conflictVars, callVars, colorVars>>

\* Mutant of generateTimetables: the result array is not created by the call
\* (an array declared outside the function), so what an earlier call has
\* collected stays in it.
generateTimetablesKeep ==
    /\ pc = "ready"
    /\ timetables' = timetables
    /\ currentTimetable' = <<>>
    /\ stack' = <<Frame(0, <<>>)>>
    /\ pc' = "running"
    /\ UNCHANGED <<courses, maxTimetables, result, conflictVars, callVars, colorVars>>

\* const timetables = []; backtrack(0, []);
generateTimetables ==
    /\ pc = "ready"
    /\ timetables' = <<>>
    /\ currentTimetable' = <<>>
    /\ stack' = <<Frame(0, <<>>)>>
    /\ pc' = "running"
    /\ UNCHANGED <<courses, maxTimetables, result, conflictVars, callVars, colorVars>>

\* Mutant of limitReached: > in place of >=.
limitReachedStrict == Len(timetables) > maxTimetables

\* The test of the first line of backtrack.
limitReached == Len(timetables) >= maxTimetables

\* if (timetables.length >= maxTimetables) return;
backtrackLimit ==
    /\ pc = "running" /\ stack # <<>>
    /\ Top.at = "entry"
    /\ limitReached
    /\ stack' = Pop(stack)
    /\ UNCHANGED <<courses, maxTimetables, timetables, currentTimetable, pc,
                   result, conflictVars, callVars, colorVars>>

\* Mutant of backtrackComplete: unshift in place of push.
backtrackCompleteUnshift ==
    /\ pc = "running" /\ stack # <<>>
    /\ Top.at = "entry"
    /\ ~limitReached
    /\ Top.courseIndex = Len(courses)
    /\ timetables' = <<currentTimetable>> \o timetables
    /\ stack' = Pop(stack)
    /\ UNCHANGED <<courses, maxTimetables, currentTimetable, pc, result, conflictVars, callVars, colorVars>>

\* Mutant of backtrackComplete: the assignment counts as complete one course
\* early (courseIndex === courses.length - 1).
backtrackCompleteEarly ==
    /\ pc = "running" /\ stack # <<>>
    /\ Top.at = "entry"
    /\ ~limitReached
    /\ Top.courseIndex = Len(courses) - 1
    /\ timetables' = Append(timetables, currentTimetable)
    /\ stack' = Pop(stack)
    /\ UNCHANGED <<courses, maxTimetables, currentTimetable, pc, result, conflictVars, callVars, colorVars>>

\* if (courseIndex === courses.length) { timetables.push([...currentTimetable]); return; }
backtrackComplete ==
    /\ pc = "running" /\ stack # <<>>
    /\ Top.at = "entry"
    /\ ~limitReached
    /\ Top.courseIndex = Len(courses)
    /\ timetables' = Append(timetables, currentTimetable)
    /\ stack' = Pop(stack)
    /\ UNCHANGED <<courses, maxTimetables, currentTimetable, pc, result, conflictVars, callVars, colorVars>>

\* Mutant of backtrackLoop: a course without sections is skipped, the search
\* going on with the next course.
backtrackLoopSkipEmpty ==
    /\ pc = "running" /\ stack # <<>>
    /\ Top.at = "entry"
    /\ ~limitReached
    /\ Top.courseIndex # Len(courses)
    /\ stack' = IF courses[Top.courseIndex + 1].sections = <<>>
                THEN ReplaceTop([Top EXCEPT !.courseIndex = @ + 1])
                ELSE ReplaceTop([Top EXCEPT !.at = "loop"])
    /\ UNCHANGED <<courses, maxTimetables, timetables, currentTimetable, pc,
                   result, conflictVars, callVars, colorVars>>

\* Mutant of backtrackLoop: the loop is entered whether or not the limit is
\* reached.
backtrackLoopNoLimit ==
    /\ pc = "running" /\ stack # <<>>
    /\ Top.at = "entry"
    /\ Top.courseIndex # Len(courses)
    /\ stack' = ReplaceTop([Top EXCEPT !.at = "loop"])
    /\ UNCHANGED <<courses, maxTimetables, timetables, currentTimetable, pc,
                   result, conflictVars, callVars, colorVars>>

\* const course = courses[courseIndex]; for (const section of course.sections)
backtrackLoop ==
    /\ pc = "running" /\ stack # <<>>
    /\ Top.at = "entry"
    /\ ~limitReached
    /\ Top.courseIndex # Len(courses)
    /\ stack' = ReplaceTop([Top EXCEPT !.at = "loop"])
    /\ UNCHANGED <<courses, maxTimetables, timetables, currentTimetable, pc,
                   result, conflictVars, callVars, colorVars>>

\* The sections the loop of the top frame runs over, and its current one.
TopSections == courses[Top.courseIndex + 1].sections

InLoop ==
    /\ pc = "running" /\ stack # <<>>
    /\ Top.at = "loop"
    /\ Top.i <= Len(TopSections)

\* if (!sectionConflicts(section, currentTimetable)) is false: next section.
loopReject ==
    /\ InLoop
    /\ sectionConflicts(TopSections[Top.i], currentTimetable)
    /\ stack' = ReplaceTop([Top EXCEPT !.i = @ + 1])
    /\ UNCHANGED <<courses, maxTimetables, timetables, currentTimetable, pc,
                   result, conflictVars, callVars, colorVars>>

\* currentTimetable.push(section); backtrack(courseIndex + 1, currentTimetable);
loopCommit ==
    /\ InLoop
    /\ ~sectionConflicts(TopSections[Top.i], currentTimetable)
    /\ currentTimetable' = Append(currentTimetable, TopSections[Top.i])
    /\ stack' = Append(ReplaceTop([Top EXCEPT !.at = "called"]),
                       Frame(Top.courseIndex + 1, currentTimetable'))
    /\ UNCHANGED <<courses, maxTimetables, timetables, pc, result, conflictVars, callVars, colorVars>>

\* Mutant of loopPop: currentTimetable.pop() is left out.
loopPopNoPop ==
    /\ pc = "running" /\ stack # <<>>
    /\ Top.at = "called"
    /\ currentTimetable' = currentTimetable
    /\ stack' = ReplaceTop([Top EXCEPT !.at = "loop", !.i = @ + 1])
    /\ UNCHANGED <<courses, maxTimetables, timetables, pc, result, conflictVars, callVars, colorVars>>

\* Mutant of loopPop: the loop steps over the section that follows.
loopPopSkip ==
    /\ pc = "running" /\ stack # <<>>
    /\ Top.at = "called"
    /\ currentTimetable' = Pop(currentTimetable)
    /\ stack' = ReplaceTop([Top EXCEPT !.at = "loop", !.i = @ + 2])
    /\ UNCHANGED <<courses, maxTimetables, timetables, pc, result, conflictVars, callVars, colorVars>>

\* currentTimetable.pop(); after the recursive call has returned.
loopPop ==
    /\ pc = "running" /\ stack # <<>>
    /\ Top.at = "called"
    /\ currentTimetable' = Pop(currentTimetable)
    /\ stack' = ReplaceTop([Top EXCEPT !.at = "loop", !.i = @ + 1])
    /\ UNCHANGED <<courses, maxTimetables, timetables, pc, result, conflictVars, callVars, colorVars>>

\* The for-loop is exhausted: backtrack returns.
loopExit ==
    /\ pc = "running" /\ stack # <<>>
    /\ Top.at = "loop"
    /\ Top.i > Len(TopSections)
    /\ stack' = Pop(stack)
    /\ UNCHANGED <<courses, maxTimetables, timetables, currentTimetable, pc,
                   result, conflictVars, callVars, colorVars>>

\* return timetables;
generateTimetablesReturn ==
    /\ pc = "running" /\ stack = <<>>
    /\ result' = timetables
    /\ pc' = "done"
    /\ UNCHANGED <<courses, maxTimetables, timetables, currentTimetable, stack,
                   conflictVars, callVars, colorVars>>

Next ==
    \/ generateTimetables
    \/ backtrackLimit
    \/ backtrackComplete
    \/ backtrackLoop
    \/ loopReject
    \/ loopCommit
    \/ loopPop
    \/ loopExit
    \/ generateTimetablesReturn

Spec == Init /\ [][Next]_vars

(***************************************************************************)
(* Several invocations on the same arguments.  timetables, currentTimetable *)
(* and the activations of backtrack are locals of one invocation; other     *)
(* holds those of a second invocation while the first one is the one        *)
(* stepping, and contextSwitch hands the turn over.  A caller that has its  *)
(* result may call again; returned collects the results handed out.         *)
(***************************************************************************)
\* The course lists of the repeated invocations: the first n courses of the
\* catalogue, with their first MaxSections sections.
FullCourse(p) ==
    LET cat == Catalogue[((p - 1) % Len(Catalogue)) + 1]
    IN  [sections |-> SubSeq(cat, 1, Min(MaxSections, Len(cat)))]

CallInputs == {[p \in 1..n |-> FullCourse(p)] : n \in 0..MaxCourses}

InitCalls ==
    /\ courses \in CallInputs
    /\ maxTimetables \in {1, MaxLimit, DefaultMaxTimetables}
    /\ timetables = <<>>
    /\ currentTimetable = <<>>
    /\ stack = <<>>
    /\ pc = "ready"
    /\ result = <<>>
    /\ schedule1 = NoSchedule
    /\ schedule2 = NoSchedule
    /\ conflict = FALSE
    /\ other = NoInvocation
    /\ returned = {}
    /\ calls = 0
    /\ NoColor

\* The other invocation takes its turn: each invocation works on its own
\* timetables, currentTimetable and activations.
contextSwitch ==
    /\ pc \in {"ready", "running", "done"}
    /\ other' = [timetables |-> timetables, currentTimetable |-> currentTimetable,
                 stack |-> stack, pc |-> pc, result |-> result]
    /\ timetables' = other.timetables
    /\ currentTimetable' = other.currentTimetable
    /\ stack' = other.stack
    /\ pc' = other.pc
    /\ result' = other.result
    /\ UNCHANGED <<courses, maxTimetables, returned, calls, conflictVars, colorVars>>

\* The caller keeps the result and calls generateTimetables(courses,
\* maxTimetables) once more; what the finished call has left behind is still
\* in memory.
callAgain ==
    /\ pc = "done"
    /\ calls < MaxCalls
    /\ returned' = returned \cup {result}
    /\ calls' = calls + 1
    /\ pc' = "ready"
    /\ UNCHANGED <<courses, maxTimetables, timetables, currentTimetable, stack,
                   result, other, conflictVars, colorVars>>

NextCalls ==
    \/ Next
    \/ contextSwitch
    \/ callAgain

SpecCalls == InitCalls /\ [][NextCalls]_vars

(***************************************************************************)
(* hasConflict applied on its own to two schedule entries.                 *)
(***************************************************************************)
InitConflict ==
    /\ courses = <<>>
    /\ maxTimetables = DefaultMaxTimetables
    /\ timetables = <<>>
    /\ currentTimetable = <<>>
    /\ stack = <<>>
    /\ pc = "conflict"
    /\ result = <<>>
    /\ schedule1 \in Schedules
    /\ schedule2 \in Schedules
    /\ conflict = FALSE
    /\ other = NoInvocation
    /\ returned = {}
    /\ calls = 0
    /\ NoColor

hasConflictCall ==
    /\ pc = "conflict"
    /\ conflict' = hasConflict(schedule1, schedule2)
    /\ pc' = "conflictDone"
    /\ UNCHANGED <<searchVars, schedule1, schedule2, callVars, colorVars>>

NextConflict == hasConflictCall

SpecConflict == InitConflict /\ [][NextConflict]_vars

(***************************************************************************)
(* calendarHelper.tsx: generateColor.  hash is a JavaScript number holding *)
(* an integer that may leave the 32-bit range (only << truncates), so it   *)
(* is kept as two limbs: its value is hi * 2^16 + lo with 0 <= lo < 2^16.  *)
(***************************************************************************)
Limb == 2 ^ 16

Norm(hi, lo) == [hi |-> hi + (lo \div Limb), lo |-> lo % Limb]

\* hash << 5: hash is taken modulo 2^32, shifted, and the low 32 bits are
\* read as a signed value.
ShiftLeft5(h) ==
    LET low == h.lo * 32
        hi2 == ((h.hi % Limb) * 32 + (low \div Limb)) % Limb
    IN  [hi |-> IF hi2 >= Limb \div 2 THEN hi2 - Limb ELSE hi2, lo |-> low % Limb]

Minus(a, b) == Norm(a.hi - b.hi, a.lo - b.lo)

\* hash = input.charCodeAt(i) + ((hash << 5) - hash)
hashStep(h, code) ==
    LET d == Minus(ShiftLeft5(h), h)
    IN  Norm(d.hi, d.lo + code)

\* hash % 360: the remainder has the sign of the dividend.
remainder360(h) ==
    LET m == ((h.hi % 360) * (Limb % 360) + h.lo) % 360
    IN  IF h.hi >= 0 \/ m = 0 THEN m ELSE m - 360

\* String.prototype.charCodeAt for the characters in use.
charCode(c) ==
    CASE c = "A" -> 65
      [] c = "H" -> 72
      [] c = "M" -> 77
      [] c = "T" -> 84
      [] c = "1" -> 49
      [] c = "7" -> 55

\* The strings over alphabet with at most n characters.
RECURSIVE StringsUpTo(_, _)
StringsUpTo(alphabet, n) ==
    IF n = 0 THEN {<<>>}
    ELSE LET shorter == StringsUpTo(alphabet, n - 1)
         IN  shorter \cup {Append(t, c) : t \in shorter, c \in alphabet}

Subjects == StringsUpTo({"A", "H", "M", "T"}, MaxSubjectLen)

CourseCodes == StringsUpTo({"1", "7"}, MaxCodeLen)

\* const input = `${subject}${courseCode}`
input == subject \o courseCode

InitColor ==
    /\ courses = <<>>
    /\ maxTimetables = DefaultMaxTimetables
    /\ timetables = <<>>
    /\ currentTimetable = <<>>
    /\ stack = <<>>
    /\ pc = "color"
    /\ result = <<>>
    /\ schedule1 = NoSchedule
    /\ schedule2 = NoSchedule
    /\ conflict = FALSE
    /\ other = NoInvocation
    /\ returned = {}
    /\ calls = 0
    /\ subject \in Subjects
    /\ courseCode \in CourseCodes
    /\ charIndex = 0
    /\ hash = [hi |-> 0, lo |-> 0]
    /\ hue = 0

\* for (let i = 0; i < input.length; i++) hash = ...
generateColorLoop ==
    /\ pc = "color"
    /\ charIndex < Len(input)
    /\ hash' = hashStep(hash, charCode(input[charIndex + 1]))
    /\ charIndex' = charIndex + 1
    /\ UNCHANGED <<searchVars, pc, conflictVars, callVars, subject, courseCode, hue>>

\* const hue = hash % 360; return `hsl(${hue}, ...)`
generateColorHue ==
    /\ pc = "color"
    /\ charIndex >= Len(input)
    /\ hue' = remainder360(hash)
    /\ pc' = "colorDone"
    /\ UNCHANGED <<searchVars, conflictVars, callVars, subject, courseCode, charIndex, hash>>

NextColor ==
    \/ generateColorLoop
    \/ generateColorHue

SpecColor == InitColor /\ [][NextColor]_vars

(***************************************************************************)
(* Reference definitions the properties are stated with.                   *)
(***************************************************************************)
\* Start and end of the time strings in use, in minutes since midnight.
MinutesOf(t) ==
    CASE t = T0900to1000 -> [start |-> 540, end |-> 600]
      [] t = T1000to1100 -> [start |-> 600, end |-> 660]
      [] t = T0930to1030 -> [start |-> 570, end |-> 630]
      [] t = T0900to1001 -> [start |-> 540, end |-> 601]
      [] t = T0900to1100 -> [start |-> 540, end |-> 660]
      [] t = T1000to1200 -> [start |-> 600, end |-> 720]
      [] t = T1030to1130 -> [start |-> 630, end |-> 690]
      [] t = T1300to1400 -> [start |-> 780, end |-> 840]
      [] t = T1330to1430 -> [start |-> 810, end |-> 870]
      [] t = T0945to0945 -> [start |-> 585, end |-> 585]

\* Some weekday slot is marked in both day patterns.
SharedDay(d1, d2) ==
    \E slot \in 1..Min(Len(d1), Len(d2)) : d1[slot] # "-" /\ d2[slot] # "-"

\* The overlap rule of the specification.
EntriesOverlap(a, b) ==
    /\ SharedDay(a.days, b.days)
    /\ MinutesOf(a.time).start < MinutesOf(b.time).end
    /\ MinutesOf(b.time).start < MinutesOf(a.time).end

\* Some entry of section a conflicts with some entry of section b.
SectionsClash(a, b) ==
    \E e1 \in Range(a.schedule), e2 \in Range(b.schedule) : hasConflict(e1, e2)

PairwiseFree(t) ==
    \A i, j \in 1..Len(t) : i # j => ~SectionsClash(t[i], t[j])

\* The Cartesian product of the section lists, in lexicographic order of the
\* section indices.
RECURSIVE Combos(_)
Combos(cs) ==
    IF cs = <<>> THEN << <<>> >>
    ELSE LET rest == Combos(Tail(cs))
             secs == Head(cs).sections
         IN  Flatten([a \in 1..Len(secs) |->
                        [b \in 1..Len(rest) |-> <<secs[a]>> \o rest[b]]])

\* The conflict-free combinations, by brute force.
AllValid == SelectSeq(Combos(courses), PairwiseFree)

NoDuplicates(s) == \A i, j \in 1..Len(s) : i # j => s[i] # s[j]

ExampleCourses ==
    << [sections |-> <<Catalogue[1][1], Catalogue[1][2]>>],
       [sections |-> <<Catalogue[2][1]>>] >>

(***************************************************************************)
(* Properties.                                                             *)
(***************************************************************************)
\* C1: every timetable collected or returned is pairwise conflict-free: no
\* schedule entry of the section at one position conflicts with a schedule
\* entry of the section at another position, adjacent or not.
Thm_C1_PairwiseConflictFree ==
    \A t \in Range(timetables) \cup Range(result) :
        \A i, j \in 1..Len(t) :
            i # j => \A e1 \in Range(t[i].schedule), e2 \in Range(t[j].schedule) :
                        ~hasConflict(e1, e2)

Wit_C1 ==
    /\ pc = "done"
    /\ Len(courses) = 3
    /\ result # <<>>
    /\ Len(result) < Len(Combos(courses))

\* C2 as stated: when maxTimetables is at least the number of conflict-free
\* combinations, the result holds as many timetables as the brute-force
\* filtered Cartesian product, the same ones, none twice; and for
\* A = [A1 Mon/Wed 9:00-10:00, A2 Mon/Wed 10:00-11:00], B = [B1 Mon 9:30-10:30]
\* the result is exactly [[A2, B1]].
CX_C2_ExampleA2B1 ==
    pc = "done" =>
        /\ maxTimetables >= Len(AllValid) =>
              /\ Len(result) = Len(AllValid)
              /\ Range(result) = Range(AllValid)
              /\ NoDuplicates(result)
        /\ (courses = ExampleCourses /\ maxTimetables >= 1) =>
              result = << <<Catalogue[1][2], Catalogue[2][1]>> >>

\* C2 amended: when maxTimetables is at least the number of conflict-free
\* combinations, the result holds as many timetables as the brute-force
\* filtered Cartesian product, the same ones, none twice; for the courses
\* A = [A1, A2], B = [B1] of the example the result is empty, B1 (9:30-10:30)
\* overlapping A1 and A2 (10:00-11:00) on Monday alike.
Thm_C2_Complete ==
    pc = "done" =>
        /\ maxTimetables >= Len(AllValid) =>
              /\ Len(result) = Len(AllValid)
              /\ Range(result) = Range(AllValid)
              /\ NoDuplicates(result)
        /\ courses = ExampleCourses =>
              /\ result = <<>>
              /\ EntriesOverlap(Catalogue[1][1].schedule[1], Catalogue[2][1].schedule[1])
              /\ EntriesOverlap(Catalogue[1][2].schedule[1], Catalogue[2][1].schedule[1])

Wit_C2 ==
    /\ pc = "done"
    /\ courses = ExampleCourses
    /\ maxTimetables = DefaultMaxTimetables
    /\ Len(Combos(courses)) = 2
    /\ result = <<>>

\* C3: in every state of the search and at return, the number of collected
\* timetables is at most maxTimetables (0 included).
Thm_C3_CapRespected ==
    /\ Len(timetables) <= maxTimetables
    /\ Len(result) <= maxTimetables

Wit_C3 ==
    /\ pc = "done"
    /\ maxTimetables >= 1
    /\ Len(result) = maxTimetables
    /\ Len(AllValid) > maxTimetables

\* C4: the result is the first min(maxTimetables, number of conflict-free
\* combinations) entries of the lexicographically ordered list of all
\* conflict-free combinations.
Thm_C4_LexPrefix ==
    pc = "done" =>
        result = SubSeq(AllValid, 1, Min(maxTimetables, Len(AllValid)))

Wit_C4 ==
    /\ pc = "done"
    /\ maxTimetables = 2
    /\ Len(AllValid) > 2
    /\ result = SubSeq(AllValid, 1, 2)

\* C5: if some course has no sections, nothing is ever collected and the
\* result is empty; no timetable shorter than the course list is appended.
Thm_C5_EmptyCourse ==
    /\ (\E k \in 1..Len(courses) : courses[k].sections = <<>>) =>
          timetables = <<>> /\ result = <<>>
    /\ \A t \in Range(timetables) : Len(t) >= Len(courses)

Wit_C5 ==
    /\ pc = "done"
    /\ Len(courses) = 3
    /\ courses[1].sections # <<>>
    /\ courses[2].sections = <<>>
    /\ courses[3].sections # <<>>
    /\ maxTimetables >= 1
    /\ result = <<>>

\* C6: for an empty course list and a limit of at least 1 the result is the
\* list holding the empty timetable alone.
Thm_C6_EmptyCourseList ==
    (pc = "done" /\ courses = <<>> /\ maxTimetables >= 1) => result = << <<>> >>

Wit_C6 ==
    /\ pc = "done"
    /\ courses = <<>>
    /\ maxTimetables = 1
    /\ result = << <<>> >>

\* C7: every timetable has one section per course: its length is the number
\* of courses and its i-th element is a section of the i-th course.
Thm_C7_OnePerCourse ==
    \A t \in Range(timetables) \cup Range(result) :
        /\ Len(t) = Len(courses)
        /\ \A i \in 1..Len(t) : t[i] \in Range(courses[i].sections)

Wit_C7 ==
    /\ pc = "done"
    /\ Len(courses) = 3
    /\ Len(result) >= 2
    /\ \E k \in 1..3 : Len(courses[k].sections) = 2

\* C8 as stated: once the number of collected timetables has reached
\* maxTimetables, no candidate section is tested, committed or recursed into.
CX_C8_SearchHalts ==
    [][(Len(timetables) >= maxTimetables) => ~(loopReject \/ loopCommit)]_vars

\* C8 amended: once the number of collected timetables has reached
\* maxTimetables, nothing more is collected and every call of backtrack
\* returns at its first line, without starting its loop; the loops already
\* running in the enclosing calls go on over their remaining sections.
Thm_C8_LimitStopsCalls ==
    [][(pc = "running" /\ Len(timetables) >= maxTimetables) =>
          /\ timetables' = timetables
          /\ (stack # <<>> /\ Top.at = "entry") => stack' = Pop(stack)]_vars

Wit_C8 ==
    /\ pc = "running"
    /\ maxTimetables >= 1
    /\ Len(timetables) >= maxTimetables
    /\ Len(stack) >= 2
    /\ Top.at = "entry"
    /\ Top.courseIndex < Len(courses)

\* C9: hasConflict(a, b) is true exactly when some weekday slot is marked in
\* both day patterns and a.start < b.end and b.start < a.end; disjoint day
\* patterns never conflict, [540,600) and [600,660) on a shared day do not
\* conflict, [540,601) and [600,660) do.
Thm_C9_HasConflict ==
    pc = "conflictDone" =>
        /\ conflict <=> EntriesOverlap(schedule1, schedule2)
        /\ ~SharedDay(schedule1.days, schedule2.days) => ~conflict
        /\ (SharedDay(schedule1.days, schedule2.days)
             /\ schedule1.time = T0900to1000 /\ schedule2.time = T1000to1100)
           => ~conflict
        /\ (SharedDay(schedule1.days, schedule2.days)
             /\ schedule1.time = T0900to1001 /\ schedule2.time = T1000to1100)
           => conflict

Wit_C9 ==
    /\ pc = "conflictDone"
    /\ schedule1.days = DaysM /\ schedule1.time = T0900to1001
    /\ schedule2.days = DaysMW /\ schedule2.time = T1000to1100
    /\ conflict

\* C10: a candidate section for course k is rejected exactly when one of its
\* schedule entries conflicts with a schedule entry of a section committed
\* for one of the courses 0..k-1, whichever; exam entries count.
Thm_C10_RejectIffConflict ==
    [][InLoop =>
          LET cand == TopSections[Top.i]
              clash == \E k \in 1..Len(currentTimetable) :
                          \E e1 \in Range(cand.schedule),
                             e2 \in Range(currentTimetable[k].schedule) :
                              EntriesOverlap(e1, e2)
          IN  /\ Len(currentTimetable) = Top.courseIndex
              /\ \A k \in 1..Len(currentTimetable) :
                    currentTimetable[k] \in Range(courses[k].sections)
              /\ clash <=> currentTimetable' = currentTimetable
              /\ ~clash <=> currentTimetable' = Append(currentTimetable, cand)]_vars

Wit_C10 ==
    /\ InLoop
    /\ Len(currentTimetable) = 2
    /\ LET cand == TopSections[Top.i]
       IN  /\ ~SectionsClash(cand, currentTimetable[2])
           /\ SectionsClash(cand, currentTimetable[1])
           /\ \A e1 \in Range(cand.schedule), e2 \in Range(currentTimetable[1].schedule) :
                 hasConflict(e1, e2) => (e1.type = "Exam" /\ e2.type = "Exam")

\* C12: when backtrack is entered at course index k, currentTimetable holds k
\* sections, one of each of the courses 0..k-1; while the call runs its loop
\* between trials and when it returns (limit reached, timetable collected or
\* loop exhausted), currentTimetable is what it was when the call was made;
\* it is empty when generateTimetables returns.
Thm_C12_BufferRestored ==
    [][/\ (pc = "running" /\ stack # <<>> /\ Top.at = "entry") =>
            /\ currentTimetable = Top.entered
            /\ Len(currentTimetable) = Top.courseIndex
            /\ \A k \in 1..Len(currentTimetable) :
                  currentTimetable[k] \in Range(courses[k].sections)
       /\ (pc = "running" /\ stack # <<>> /\ Len(stack') < Len(stack)) =>
            /\ currentTimetable' = Top.entered
            /\ Len(currentTimetable') = Top.courseIndex
       /\ (pc = "running" /\ stack # <<>> /\ Top.at = "called") =>
            currentTimetable' = Top.entered
       /\ pc' = "done" => currentTimetable' = <<>>]_vars

Wit_C12 ==
    /\ pc = "running"
    /\ Len(stack) = 2
    /\ Top.at = "loop"
    /\ Top.i > Len(TopSections)
    /\ maxTimetables >= 1
    /\ Len(timetables) >= maxTimetables
    /\ currentTimetable = Top.entered
    /\ Len(currentTimetable) = 1

\* C11: invocations of generateTimetables on the same courses and limit, one
\* after the other or interleaved in any order, return the same list in the
\* same order: every result handed out equals every other one.
Thm_C11_SameResult ==
    /\ \A r1, r2 \in returned : r1 = r2
    /\ pc = "done" => \A r \in returned : result = r
    /\ other.pc = "done" => \A r \in returned : other.result = r
    /\ (pc = "done" /\ other.pc = "done") => result = other.result

Wit_C11 ==
    /\ pc = "done"
    /\ other.pc = "done"
    /\ calls = MaxCalls
    /\ returned # {}
    /\ Len(result) >= 2
    /\ result = other.result

\* C13: the hue computed by generateColor lies in the range 0 to 360: it is
\* never negative.
CX_C13_HueInRange ==
    pc = "colorDone" => hue \in 0..360

\* What the code gives for subject "MATH", course code "1171": the hash is
\* -3211509758 = -49004 * 2^16 + 16386, the hue -158.
Obs_C13_Math1171 ==
    (/\ pc = "colorDone"
     /\ subject = <<"M", "A", "T", "H">>
     /\ courseCode = <<"1", "1", "7", "1">>)
    => (hash = [hi |-> -49004, lo |-> 16386] /\ hue = -158)

\* The hue stays within -359..359 whatever the input.
Obs_C13_HueMagnitude ==
    pc = "colorDone" => hue \in -359..359

====
